---------------------------- MODULE Spec2Model ----------------------------
(***************************************************************************)
(* Model of spatial_overlay_script.py (the FN referral tool).              *)
(*                                                                         *)
(* One desktop GIS session runs the script up to MaxRuns times, one run at *)
(* a time.  A run is the module top level (lines 12-20), then main():      *)
(* initialize_tool, get_FN_areas, Feature_FN_overlay (prelude, one cursor  *)
(* iteration per feature, the one-to-many join and its marking loop),      *)
(* make_excel_report and the final clean-up.  An exception raised anywhere *)
(* ends the run where it is raised: there is no try/except in the script.  *)
(*                                                                         *)
(* The host GIS engine is modelled by its tabular answers: a describe of   *)
(* the input collection, the layers of the map document, the selection of  *)
(* territories touching the boundary, the rows of the spatial joins.       *)
(*                                                                         *)
(* Python strings that are compared or ordered are sequences of character  *)
(* codes, so that str() and the ordering of strings are computed, not      *)
(* assumed.  Cell values that are only copied are TLA+ strings.            *)
(***************************************************************************)
EXTENDS Integers, Sequences, FiniteSets, TLC

(***************************************************************************)
(* Bounds of the model.                                                    *)
(***************************************************************************)
MaxFeatures == 2
MaxRuns == 2

(***************************************************************************)
(* Input domains.  An identifier value read from ID_field is <<>> for a    *)
(* NULL field value and <<n>> for the integer n.  The integers 9 and 10    *)
(* order differently as numbers and as text.                               *)
(***************************************************************************)
IdValues == {<<>>, <<9>>, <<10>>}
FeatureTypes == {"Block", "Road", "Other"}
ShapeTypes == {"Polygon", "Polyline"}
LinearUnits == {"Meter", ""}

(***************************************************************************)
(* String literals of the script, as character codes.                      *)
(***************************************************************************)
ColType == <<84, 121, 112, 101>>
ColFieldTeam == <<70, 105, 101, 108, 100, 32, 84, 101, 97, 109>>
ColOpArea == <<79, 112, 32, 65, 114, 101, 97>>
ColName == <<78, 97, 109, 101>>
ColElevation == <<69, 108, 101, 118, 97, 116, 105, 111, 110>>
ColAreaHa == <<65, 114, 101, 97, 32, 40, 104, 97, 41>>
ColLengthM == <<76, 101, 110, 103, 116, 104, 32, 40, 109, 41>>
NoneText == <<78, 111, 110, 101>>

\* CONTACT_ORGANIZATION_NAME values of the territory layer: "X" and "Y".
AreaX == <<88>>
AreaY == <<89>>
AreaNames == {AreaX, AreaY}

\* Names of the layers the map document may hold.
LegalAreas == "LegalAreas"
FNConsultativeAreas == "FN Consultative Areas"
LayerNames == {LegalAreas, FNConsultativeAreas}

VARIABLES
    run,           \* number of invocations started in this session
    pc,            \* position of the current run
    error,         \* the exception that ended the run, "" if none
    stages,        \* the pipeline stages the current run has entered, in order
    feature_type,  \* parameter 0
    shapeType,     \* arcpy.Describe(features).shapeType
    linearUnit,    \* arcpy.Describe(features).spatialReference.linearUnitName
    features,      \* the input collection: the ID_field value of each feature
    hasIdField,    \* whether ID_field is a field of the collection
    mxdLayers,     \* names of the layers of the current map document
    scratch,       \* datasets of in_memory and the FN_areas_lyr layer
    stale,         \* whether the run started with a non-empty scratch
    territory,     \* names of the polygons of the territory layer
    touchesBA,     \* names of the polygons that intersect the boundary
    FN_areas,      \* the selection get_FN_areas returns
    val_dict,      \* the Result Table: column name -> list of values
    cur,           \* 1-based position of the search cursor over features
    areaOrder,     \* order in which the join emits the selected areas
    hits,          \* <<area, feature position>> pairs that intersect
    report,        \* the spreadsheet written by the current run
    written        \* number of spreadsheets the current run has saved

vars == <<run, pc, error, stages, feature_type, shapeType, linearUnit,
          features, hasIdField, mxdLayers, scratch, stale, territory,
          touchesBA, FN_areas, val_dict, cur, areaOrder, hits, report,
          written>>

inputVars == <<feature_type, shapeType, linearUnit, features, hasIdField>>
locatorVars == <<territory, touchesBA, FN_areas>>
overlayVars == <<val_dict, cur, areaOrder, hits>>
outputVars == <<report, written>>

(***************************************************************************)
(* Helpers on sequences and strings.                                       *)
(***************************************************************************)
Range(s) == {s[i] : i \in 1..Len(s)}

SeqsUpTo(S, n) == UNION {[1..k -> S] : k \in 0..n}

Perms(n) == {p \in [1..n -> 1..n] : \A i, j \in 1..n : p[i] = p[j] => i = j}

OrdersOf(S) == {s \in [1..Cardinality(S) -> S] : Range(s) = S}

Min(a, b) == IF a < b THEN a ELSE b

\* a < b and a <= b for Python 2 str values: byte-wise lexicographic.
LexLess(a, b) ==
    \E k \in 0..Min(Len(a), Len(b)) :
        /\ \A j \in 1..k : a[j] = b[j]
        /\ \/ k = Len(a) /\ k < Len(b)
           \/ k < Len(a) /\ k < Len(b) /\ a[k + 1] < b[k + 1]

LexLeq(a, b) == a = b \/ LexLess(a, b)

\* str(n) for a non-negative int: its decimal digits.
RECURSIVE Digits(_)
Digits(n) == IF n < 10 THEN <<48 + n>> ELSE Digits(n \div 10) \o <<48 + (n % 10)>>

\* str(row[k]) for a value a cursor returns: 'None' for NULL.
Str(v) == IF v = <<>> THEN NoneText ELSE Digits(v[1])

\* str(row[0]) for a CONTACT_ORGANIZATION_NAME value: the text itself, and
\* 'None' for a NULL name.
StrArea(a) == IF a = <<>> THEN NoneText ELSE a

EmptyDict == [k \in {} |-> <<>>]
NoReport == [columns |-> <<>>, index |-> <<>>, rows |-> <<>>]

(***************************************************************************)
(* The scratch workspace: datasets of the in_memory workspace and the      *)
(* feature layer FN_areas_lyr.  fresh tells whether the current run made   *)
(* the dataset.                                                            *)
(***************************************************************************)
Dataset(ws, name) == [ws |-> ws, name |-> name, fresh |-> TRUE]

FNAreasLyr == Dataset("layer", "FN_areas_lyr")
StInter == Dataset("in_memory", "st_inter")
OpAreaJoin == Dataset("in_memory", "op_area")
PtBuf == Dataset("in_memory", "ptBuf")
DemClip == Dataset("in_memory", "dem")
Intersect == Dataset("in_memory", "intersect")

\* arcpy.Delete_management("in_memory")
DeleteInMemoryKeep(s) == s
DeleteInMemory(s) == {d \in s : d.ws # "in_memory"}

\* if arcpy.Exists('FN_areas_lyr'): arcpy.Delete_management("FN_areas_lyr")
DeleteFNLayerKeep(s) == s
DeleteFNLayer(s) == {d \in s : ~(d.ws = "layer" /\ d.name = "FN_areas_lyr")}

\* What a run inherits from the run before it.
Inherited(s) == {[d EXCEPT !.fresh = FALSE] : d \in s}

(***************************************************************************)
(* initialize_tool: the checks of lines 38-70, in the order of the code.   *)
(* The result is the message of the exception raised, "" when none is.     *)
(***************************************************************************)
ValidatorErrorNoEmptyCheck(ft, st, unit, count, hasField) ==
    IF ft = "Block" /\ st # "Polygon" THEN "Block features must be Polygons!"
    ELSE IF ft = "Road" /\ st # "Polyline" THEN "Road features must be Lines!"
    ELSE IF ft \notin {"Block", "Road"} THEN "Input features must be either Blocks or Roads!"
    ELSE IF ft = "Block" /\ unit # "Meter" THEN "Input layer must be in a projected coordinate system!"
    ELSE IF ~hasField THEN "ID_field is not a field of features"
    ELSE ""

ValidatorError(ft, st, unit, count, hasField) ==
    IF ft = "Block" /\ st # "Polygon" THEN "Block features must be Polygons!"
    ELSE IF ft = "Road" /\ st # "Polyline" THEN "Road features must be Lines!"
    ELSE IF ft \notin {"Block", "Road"} THEN "Input features must be either Blocks or Roads!"
    ELSE IF ft = "Block" /\ unit # "Meter" THEN "Input layer must be in a projected coordinate system!"
    ELSE IF count < 1 THEN "Your input features layer is empty!"
    ELSE IF ~hasField THEN "ID_field is not a field of features"
    ELSE ""

(***************************************************************************)
(* get_FN_areas: the loop of lines 80-86 binds BA_layer and FN_layer only  *)
(* when a layer of that name is found; line 89 reads FN_layer and line 90  *)
(* reads BA_layer.  Reading an unbound local raises UnboundLocalError.     *)
(***************************************************************************)
FNLayerBound(layers) == FNConsultativeAreas \in layers
BALayerBound(layers) == LegalAreas \in layers

LayerErrorOnlyIfNeither(layers) ==
    IF ~FNLayerBound(layers) /\ ~BALayerBound(layers)
    THEN "UnboundLocalError: FN_layer" ELSE ""

LayerError(layers) ==
    IF ~FNLayerBound(layers) THEN "UnboundLocalError: FN_layer"
    ELSE IF ~BALayerBound(layers) THEN "UnboundLocalError: BA_layer"
    ELSE ""

\* SelectLayerByLocation_management(FN_areas, 'intersect', BA_layer)
SelectByLocation(terr, touching) == {a \in terr : a \in touching}

(***************************************************************************)
(* Feature_FN_overlay, lines 99-125: the columns known before the cursor   *)
(* loop.  A JOIN_ONE_TO_ONE spatial join (join_type left at KEEP_ALL)      *)
(* returns one row per target feature, in the order of the targets; the    *)
(* attribute it carries for feature i is written i here.                   *)
(***************************************************************************)
TypeColumnShort(ft, n) == [i \in 1..(n - 1) |-> ft]
TypeColumn(ft, n) == [i \in 1..n |-> ft]

OneToOneJoin(n) == [i \in 1..n |-> i]

Measure(ft) == IF ft = "Block" THEN ColAreaHa ELSE ColLengthM

InitialDict(ft, n) ==
    (ColType :> TypeColumn(ft, n)) @@ (ColFieldTeam :> OneToOneJoin(n)) @@
    (ColOpArea :> OneToOneJoin(n)) @@ (ColName :> <<>>) @@
    (ColElevation :> <<>>) @@ (Measure(ft) :> <<>>)

\* Lines 138-165: one iteration of the cursor loop over the feature at
\* position i.  The measure and the elevation sample of feature i are
\* written i.
AppendFeature(vd, ft, feats, i) ==
    [vd EXCEPT ![ColName] = Append(@, Str(feats[i])),
               ![Measure(ft)] = Append(@, i),
               ![ColElevation] = Append(@, i)]

(***************************************************************************)
(* Lines 172-175: the rows of the JOIN_ONE_TO_MANY spatial join of the     *)
(* selected areas (targets) with the features (join_type left at           *)
(* KEEP_ALL): for each area one row per feature it intersects, carrying    *)
(* the feature's ID_field value, and for an area that intersects no        *)
(* feature one row whose ID_field value is NULL.                           *)
(***************************************************************************)
RECURSIVE MatchRows(_, _, _, _)
MatchRows(a, h, feats, i) ==
    IF i > Len(feats) THEN <<>>
    ELSE (IF <<a, i>> \in h THEN << <<a, feats[i]>> >> ELSE <<>>)
         \o MatchRows(a, h, feats, i + 1)

RowsOfArea(a, h, feats) ==
    IF \E i \in 1..Len(feats) : <<a, i>> \in h
    THEN MatchRows(a, h, feats, 1)
    ELSE << <<a, <<>>>> >>

RECURSIVE JoinRows(_, _, _)
JoinRows(order, h, feats) ==
    IF order = <<>> THEN <<>>
    ELSE RowsOfArea(Head(order), h, feats) \o JoinRows(Tail(order), h, feats)

\* Line 178: the column a newly met area name starts with.
DefaultColumn(n) == [i \in 1..n |-> "n/r"]

\* Lines 180-182: mark every position whose Name equals str(row[1]).
MarkRequired(col, names, id, n) ==
    [i \in 1..Len(col) |->
        IF i <= n /\ i <= Len(names) /\ Str(id) = names[i]
        THEN "required" ELSE col[i]]

\* Lines 175-184: the loop over the rows of the join.
RECURSIVE OverlayRows(_, _, _)
OverlayRows(vd, rows, n) ==
    IF rows = <<>> THEN vd
    ELSE LET row == Head(rows)
             key == StrArea(row[1])
             vd1 == IF key \in DOMAIN vd THEN vd
                    ELSE vd @@ (key :> DefaultColumn(n))
             vd2 == [vd1 EXCEPT ![key] = MarkRequired(@, vd1[ColName], row[2], n)]
         IN  OverlayRows(vd2, Tail(rows), n)

(***************************************************************************)
(* make_excel_report.                                                      *)
(***************************************************************************)
\* sorted(keys): pandas orders the keys of a plain dict when it builds the
\* frame (line 195; the pandas.formats module of line 217 fixes the pandas
\* release, and arcpy.mapping of line 78 fixes Python 2, whose dict has no
\* insertion order).
RECURSIVE SortKeys(_)
SortKeys(S) ==
    IF S = {} THEN <<>>
    ELSE LET m == CHOOSE x \in S : \A y \in S : LexLeq(x, y)
         IN  <<m>> \o SortKeys(S \ {m})

RECURSIVE SortKeysDescending(_)
SortKeysDescending(S) ==
    IF S = {} THEN <<>>
    ELSE LET m == CHOOSE x \in S : \A y \in S : LexLeq(y, x)
         IN  <<m>> \o SortKeysDescending(S \ {m})

DataFrameColumnsDescending(vd) == SortKeysDescending(DOMAIN vd)
DataFrameColumns(vd) == SortKeys(DOMAIN vd)

\* DataFrame.from_dict raises ValueError when the lists differ in length.
RaggedColumns(vd) == \E c, d \in DOMAIN vd : Len(vd[c]) # Len(vd[d])

FrameLength(vd) == Len(vd[ColName])

FrameRows(vd) == [k \in 1..FrameLength(vd) |-> [c \in DOMAIN vd |-> vd[c][k]]]

\* Lines 198-201.
FirstCols(ft) ==
    <<ColType, ColFieldTeam, ColOpArea, ColName, Measure(ft), ColElevation>>

\* df.columns.drop(first_cols).tolist()
DropLabels(cols, labels) == SelectSeq(cols, LAMBDA c : c \notin Range(labels))

\* Line 203.
AllCols(ft, vd) == FirstCols(ft) \o DropLabels(DataFrameColumns(vd), FirstCols(ft))

\* Line 207: df.sort_values(by=['Name']) with the default kind, quicksort,
\* which promises an ascending order of the Name strings and no order among
\* equal ones.  The outcomes are the permutations p (row k of the result is
\* row p[k] of the frame) that put the names in ascending order.
SortOutcomesUnsorted(names) == Perms(Len(names))
SortOutcomes(names) ==
    {p \in Perms(Len(names)) :
        \A j, k \in 1..Len(names) : j < k => LexLeq(names[p[j]], names[p[k]])}

\* Lines 208-211: reset_index gives 0..n-1, then index + 1.
ResetIndex(n) == [k \in 1..n |-> k - 1]
IndexPlusOne(idx) == [k \in 1..Len(idx) |-> idx[k] + 1]

\* The frame handed to to_excel (line 221).
Frame(ft, vd, p) ==
    [columns |-> AllCols(ft, vd),
     index |-> IndexPlusOne(ResetIndex(FrameLength(vd))),
     rows |-> [k \in 1..FrameLength(vd) |-> FrameRows(vd)[p[k]]]]

\* Line 292: writer.save() is the only statement that touches out_excel.
SaveWorkbookPartial(writeOk, df) ==
    IF writeOk THEN [error |-> "", file |-> df, saved |-> 1]
    ELSE [error |-> "IOError", file |-> df, saved |-> 1]

SaveWorkbook(writeOk, df) ==
    IF writeOk THEN [error |-> "", file |-> df, saved |-> 1]
    ELSE [error |-> "IOError", file |-> NoReport, saved |-> 0]

(***************************************************************************)
(* The state machine.                                                      *)
(***************************************************************************)
Init ==
    /\ run = 0
    /\ pc = "idle"
    /\ error = ""
    /\ stages = <<>>
    /\ feature_type = "Block"
    /\ shapeType = "Polygon"
    /\ linearUnit = "Meter"
    /\ features = <<>>
    /\ hasIdField = FALSE
    /\ mxdLayers = {}
    /\ scratch = {}
    /\ stale = FALSE
    /\ territory = {}
    /\ touchesBA = {}
    /\ FN_areas = {}
    /\ val_dict = EmptyDict
    /\ cur = 0
    /\ areaOrder = <<>>
    /\ hits = {}
    /\ report = NoReport
    /\ written = 0

\* An uncaught exception ends the run at the statement that raised it.
Raise(msg) ==
    /\ pc' = "failed"
    /\ error' = msg

\* The operator starts the script tool: the tool parameters, the input
\* collection and the map document are those of the moment; the scratch
\* workspace is what the session holds.
StartRun ==
    /\ pc = "idle"
    /\ run < MaxRuns
    /\ run' = run + 1
    /\ pc' = "import"
    /\ feature_type' \in FeatureTypes
    /\ shapeType' \in ShapeTypes
    /\ linearUnit' \in LinearUnits
    /\ features' \in SeqsUpTo(IdValues, MaxFeatures)
    /\ hasIdField' \in BOOLEAN
    /\ mxdLayers' \in SUBSET LayerNames
    /\ scratch' = Inherited(scratch)
    /\ stale' = (scratch # {})
    /\ UNCHANGED <<error, stages, locatorVars, overlayVars, outputVars>>

\* Lines 12-20: line 12 calls arcpy.AddMessage before line 16 imports arcpy.
\* The name arcpy is bound only if the namespace the script runs in already
\* holds it; otherwise line 12 raises NameError.
ModuleTopLevel ==
    /\ pc = "import"
    /\ \E arcpyBound \in BOOLEAN :
          IF arcpyBound
          THEN pc' = "initialize_tool" /\ error' = error
          ELSE Raise("NameError: name 'arcpy' is not defined")
    /\ UNCHANGED <<run, stages, inputVars, mxdLayers, scratch, stale,
                   locatorVars, overlayVars, outputVars>>

\* Lines 22-70.
initialize_tool ==
    /\ pc = "initialize_tool"
    /\ stages' = Append(stages, "Validator")
    /\ scratch' = DeleteFNLayer(DeleteInMemory(scratch))
    /\ LET msg == ValidatorError(feature_type, shapeType, linearUnit,
                                 Len(features), hasIdField)
       IN  IF msg = ""
           THEN pc' = "get_FN_areas" /\ error' = error
           ELSE Raise(msg)
    /\ UNCHANGED <<run, inputVars, mxdLayers, stale, locatorVars,
                   overlayVars, outputVars>>

\* Lines 73-92.  MakeFeatureLayer (line 89) runs before line 90 reads
\* BA_layer.
get_FN_areas ==
    /\ pc = "get_FN_areas"
    /\ stages' = Append(stages, "Locator")
    /\ IF LayerError(mxdLayers) = ""
       THEN \E terr \in SUBSET AreaNames, touching \in SUBSET AreaNames :
               /\ territory' = terr
               /\ touchesBA' = touching
               /\ FN_areas' = SelectByLocation(terr, touching)
               /\ pc' = "Feature_FN_overlay"
               /\ error' = error
       ELSE /\ UNCHANGED locatorVars
            /\ Raise(LayerError(mxdLayers))
    /\ scratch' = IF FNLayerBound(mxdLayers) THEN scratch \cup {FNAreasLyr}
                  ELSE scratch
    /\ UNCHANGED <<run, inputVars, mxdLayers, stale, overlayVars, outputVars>>

\* Feature_FN_overlay, lines 99-133.
OverlayPrelude ==
    /\ pc = "Feature_FN_overlay"
    /\ stages' = Append(stages, "Enricher")
    /\ val_dict' = InitialDict(feature_type, Len(features))
    /\ scratch' = scratch \cup {StInter, OpAreaJoin}
    /\ cur' = 1
    /\ pc' = "cursor"
    /\ UNCHANGED <<run, error, inputVars, mxdLayers, stale, locatorVars,
                   areaOrder, hits, outputVars>>

\* Feature_FN_overlay, lines 134-167: one feature.  Reading the elevation
\* (line 164) raises IndexError when the cell lies outside the clipped
\* raster; the datasets of the iteration are then still in in_memory.
EnrichFeature ==
    /\ pc = "cursor"
    /\ cur <= Len(features)
    /\ \E sampled \in BOOLEAN :
          IF sampled
          THEN /\ val_dict' = AppendFeature(val_dict, feature_type, features, cur)
               /\ scratch' = DeleteInMemory(scratch \cup {PtBuf, DemClip})
               /\ cur' = cur + 1
               /\ pc' = IF cur = Len(features) THEN "join" ELSE "cursor"
               /\ error' = error
          ELSE /\ val_dict' = [val_dict EXCEPT
                                  ![ColName] = Append(@, Str(features[cur])),
                                  ![Measure(feature_type)] = Append(@, cur)]
               /\ scratch' = scratch \cup {PtBuf, DemClip}
               /\ cur' = cur
               /\ Raise("IndexError")
    /\ UNCHANGED <<run, stages, inputVars, mxdLayers, stale, locatorVars,
                   areaOrder, hits, outputVars>>

\* Feature_FN_overlay, lines 169-188: the one-to-many join and the marking
\* loop.  The host decides which features intersect which selected areas
\* and the order of the areas in the join output.
OverlayJoin ==
    /\ pc = "join"
    /\ stages' = Append(stages, "Aggregator")
    /\ \E order \in OrdersOf(FN_areas),
          h \in SUBSET (FN_areas \X (1..Len(features))) :
          /\ areaOrder' = order
          /\ hits' = h
          /\ val_dict' = OverlayRows(val_dict, JoinRows(order, h, features),
                                     Len(features))
    /\ scratch' = scratch \cup {Intersect}
    /\ pc' = "make_excel_report"
    /\ UNCHANGED <<run, error, inputVars, mxdLayers, stale, locatorVars,
                   cur, outputVars>>

\* Lines 191-293.
make_excel_report ==
    /\ pc = "make_excel_report"
    /\ stages' = Append(stages, "Writer")
    /\ IF RaggedColumns(val_dict)
       THEN /\ Raise("ValueError: arrays must all be same length")
            /\ UNCHANGED outputVars
       ELSE \E p \in SortOutcomes(val_dict[ColName]), writeOk \in BOOLEAN :
               LET out == SaveWorkbook(writeOk,
                                       Frame(feature_type, val_dict, p))
               IN  /\ report' = out.file
                   /\ written' = written + out.saved
                   /\ IF out.error = ""
                      THEN pc' = "cleanup" /\ error' = error
                      ELSE Raise(out.error)
    /\ UNCHANGED <<run, inputVars, mxdLayers, scratch, stale, locatorVars,
                   overlayVars>>

\* main, lines 318-323.
Cleanup ==
    /\ pc = "cleanup"
    /\ scratch' = DeleteFNLayer(DeleteInMemory(scratch))
    /\ pc' = "done"
    /\ UNCHANGED <<run, error, stages, inputVars, mxdLayers, stale,
                   locatorVars, overlayVars, outputVars>>

\* The script has ended, normally (line 325 returns) or by an uncaught
\* exception: its variables are gone, the session and its scratch workspace
\* remain.
ScriptExit ==
    /\ pc \in {"done", "failed"}
    /\ pc' = "idle"
    /\ error' = ""
    /\ stages' = <<>>
    /\ feature_type' = "Block"
    /\ shapeType' = "Polygon"
    /\ linearUnit' = "Meter"
    /\ features' = <<>>
    /\ hasIdField' = FALSE
    /\ mxdLayers' = {}
    /\ stale' = FALSE
    /\ territory' = {}
    /\ touchesBA' = {}
    /\ FN_areas' = {}
    /\ val_dict' = EmptyDict
    /\ cur' = 0
    /\ areaOrder' = <<>>
    /\ hits' = {}
    /\ report' = NoReport
    /\ written' = 0
    /\ UNCHANGED <<run, scratch>>

Next ==
    \/ StartRun
    \/ ModuleTopLevel
    \/ initialize_tool
    \/ get_FN_areas
    \/ OverlayPrelude
    \/ EnrichFeature
    \/ OverlayJoin
    \/ make_excel_report
    \/ Cleanup
    \/ ScriptExit

Spec == Init /\ [][Next]_vars

(***************************************************************************)
(* Vocabulary of the properties.                                           *)
(***************************************************************************)
AllStages == <<"Validator", "Locator", "Enricher", "Aggregator", "Writer">>

Entered(stage) == stage \in Range(stages)

Terminated == pc \in {"done", "failed"}

ValidatorMessages ==
    {"Block features must be Polygons!", "Road features must be Lines!",
     "Input features must be either Blocks or Roads!",
     "Input layer must be in a projected coordinate system!",
     "Your input features layer is empty!",
     "ID_field is not a field of features"}

LayerMessages == {"UnboundLocalError: FN_layer", "UnboundLocalError: BA_layer"}

\* The four conditions of the validator's contract, for a declared kind.
GeometryMismatch ==
    \/ feature_type = "Block" /\ shapeType # "Polygon"
    \/ feature_type = "Road" /\ shapeType # "Polyline"

NotProjectedBlock == feature_type = "Block" /\ linearUnit # "Meter"

ContractViolated ==
    \/ GeometryMismatch
    \/ NotProjectedBlock
    \/ Len(features) = 0
    \/ ~hasIdField

\* The area names in the order the loop over the join rows first meets them.
RECURSIVE FirstMet(_, _)
FirstMet(rows, seen) ==
    IF rows = <<>> THEN seen
    ELSE FirstMet(Tail(rows),
                  IF StrArea(Head(rows)[1]) \in Range(seen) THEN seen
                  ELSE Append(seen, StrArea(Head(rows)[1])))

Discovered == FirstMet(JoinRows(areaOrder, hits, features), <<>>)

\* The feature position a report row came from (its Field Team cell).
Origin(k) == report.rows[k][ColFieldTeam]

(***************************************************************************)
(* C1.  When Feature_FN_overlay has returned, each feature row holds, in   *)
(* each discovered area-name column, "required" if the feature intersects  *)
(* the area (the join paired them) and "n/r" otherwise.                    *)
(***************************************************************************)
C1_RequiredIffIntersects ==
    Entered("Aggregator") =>
        \A a \in FN_areas :
            /\ StrArea(a) \in DOMAIN val_dict
            /\ \A i \in 1..Len(features) :
                  val_dict[StrArea(a)][i] =
                      IF <<a, i>> \in hits THEN "required" ELSE "n/r"

(***************************************************************************)
(* C2.  When Feature_FN_overlay has returned, the Result Table has the     *)
(* columns Type, Field Team, Op Area, Name, the measure, Elevation and one *)
(* per discovered area, and every column has as many entries as there are  *)
(* input features.                                                         *)
(***************************************************************************)
C2_ColumnLengths ==
    Entered("Aggregator") =>
        /\ DOMAIN val_dict =
              Range(FirstCols(feature_type)) \cup {StrArea(a) : a \in FN_areas}
        /\ \A c \in DOMAIN val_dict : Len(val_dict[c]) = Len(features)

C2_Witness ==
    /\ pc = "make_excel_report"
    /\ Len(features) >= 2
    /\ {AreaX, AreaY} \subseteq DOMAIN val_dict

(***************************************************************************)
(* C3.  For a declared kind Block or Road, once initialize_tool has run:   *)
(* if the geometry does not match the kind, or the kind is Block and the   *)
(* linear unit is not metres, or the collection is empty, or the           *)
(* identifier field is absent, the run has failed with a validator error   *)
(* and entered no later stage and wrote nothing; otherwise the validator   *)
(* raised nothing (a Road collection is not asked for a projected          *)
(* reference).                                                             *)
(***************************************************************************)
C3_ValidatorRejects ==
    (Entered("Validator") /\ feature_type \in {"Block", "Road"}) =>
        IF ContractViolated
        THEN /\ pc = "failed"
             /\ error \in ValidatorMessages
             /\ stages = <<"Validator">>
             /\ written = 0
        ELSE /\ error \notin ValidatorMessages
             /\ pc # "failed" \/ Len(stages) > 1

C3_Witness ==
    /\ pc = "failed"
    /\ stages = <<"Validator">>
    /\ feature_type = "Block" /\ shapeType = "Polygon" /\ linearUnit = "Meter"
    /\ hasIdField
    /\ features = <<>>
    /\ error = "Your input features layer is empty!"

(***************************************************************************)
(* C4.  A report exists only when every stage has been entered and none    *)
(* raised, and it then holds one row per feature; a run that ended with an *)
(* error has produced no report.                                           *)
(***************************************************************************)
C4_NoPartialReport ==
    /\ (written > 0 \/ report # NoReport) =>
          /\ error = ""
          /\ stages = AllStages
          /\ written = 1
          /\ Len(report.rows) = Len(features)
    /\ pc = "failed" => written = 0 /\ report = NoReport

C4_Witness ==
    /\ pc = "failed"
    /\ error = "IOError"
    /\ stages = AllStages

(***************************************************************************)
(* C5.  A run whose inputs satisfy the validator and whose map document    *)
(* holds both layers has, when it terminates, entered the five stages in   *)
(* order, each once, and written exactly one report.                       *)
(***************************************************************************)
C5_ValidRunWritesReport ==
    (/\ Terminated
     /\ feature_type \in {"Block", "Road"}
     /\ ~ContractViolated
     /\ mxdLayers = LayerNames) =>
        /\ pc = "done"
        /\ stages = AllStages
        /\ written = 1

(***************************************************************************)
(* C6 as stated.  Whenever a run has terminated, the scratch workspace is  *)
(* empty.                                                                  *)
(***************************************************************************)
C6_ScratchEmptyAfterEveryRun == Terminated => scratch = {}

(***************************************************************************)
(* C6 amended.  initialize_tool leaves the scratch workspace empty, a run  *)
(* that completes leaves it empty, and after initialize_tool a run meets   *)
(* in the scratch workspace only datasets it made itself.                  *)
(***************************************************************************)
C6_ClearedAtStartAndOnSuccess ==
    /\ (Entered("Validator") /\ ~Entered("Locator")) => scratch = {}
    /\ pc = "done" => scratch = {}
    /\ Entered("Validator") => \A d \in scratch : d.fresh

C6_Witness ==
    /\ stale
    /\ pc = "done"
    /\ scratch = {}

(***************************************************************************)
(* C7 as stated.  A step of initialize_tool changes neither the scratch    *)
(* workspace nor the layers of the session nor the input collection.       *)
(***************************************************************************)
C7_ValidatorNoSideEffects ==
    [][pc = "initialize_tool" =>
          /\ scratch' = scratch
          /\ mxdLayers' = mxdLayers
          /\ UNCHANGED inputVars]_vars

(***************************************************************************)
(* C7 amended.  A step of initialize_tool empties the scratch workspace    *)
(* and changes nothing else of the session, the inputs or the results.     *)
(***************************************************************************)
C7_ValidatorOnlyClearsScratch ==
    [][pc = "initialize_tool" =>
          /\ scratch' = {}
          /\ UNCHANGED <<inputVars, mxdLayers, locatorVars, overlayVars,
                         outputVars>>]_vars

C7_Witness ==
    /\ stale
    /\ stages = <<"Validator">>
    /\ scratch = {}

(***************************************************************************)
(* C8.  Once get_FN_areas has run: if either required layer is missing     *)
(* from the map document the run has failed there with an unbound-name     *)
(* error, no feature was enriched and nothing was written; if both are     *)
(* present it raised nothing and returned the territories that intersect   *)
(* the boundary.                                                           *)
(***************************************************************************)
C8_MissingLayerFatal ==
    Entered("Locator") =>
        IF mxdLayers # LayerNames
        THEN /\ pc = "failed"
             /\ error \in LayerMessages
             /\ stages = <<"Validator", "Locator">>
             /\ val_dict = EmptyDict
             /\ written = 0
        ELSE /\ error \notin LayerMessages
             /\ FN_areas = territory \cap touchesBA
             /\ pc = "Feature_FN_overlay" \/ Entered("Enricher")

C8_Witness ==
    /\ pc = "failed"
    /\ mxdLayers = {FNConsultativeAreas}
    /\ stages = <<"Validator", "Locator">>
    /\ error = "UnboundLocalError: BA_layer"

(***************************************************************************)
(* C9 as stated, its ordering clause.  The rows of the report are ordered  *)
(* by identifier according to the identifier's natural type: for two rows  *)
(* whose identifiers are integers, the smaller integer comes first.        *)
(***************************************************************************)
C9_SortedByNaturalType ==
    written > 0 =>
        \A j, k \in 1..Len(report.rows) :
            (/\ j < k
             /\ features[Origin(j)] # <<>>
             /\ features[Origin(k)] # <<>>)
                => features[Origin(j)][1] <= features[Origin(k)][1]

(***************************************************************************)
(* C9 amended.  The rows of the report are a permutation of the rows of    *)
(* the Result Table, in ascending order of the Name text compared          *)
(* character by character, and they are numbered from 1.                   *)
(***************************************************************************)
C9_SortedByNameText ==
    written > 0 =>
        /\ Len(report.rows) = Len(features)
        /\ \E p \in Perms(Len(features)) :
              \A k \in 1..Len(features) : report.rows[k] = FrameRows(val_dict)[p[k]]
        /\ \A j, k \in 1..Len(report.rows) :
              j < k => LexLeq(report.rows[j][ColName], report.rows[k][ColName])
        /\ report.index = [k \in 1..Len(features) |-> k]

C9_Witness ==
    /\ written > 0
    /\ features = << <<9>>, <<10>> >>
    /\ Origin(1) = 2

(***************************************************************************)
(* C10 as stated.  The columns of the report are the six leading columns   *)
(* followed by the area-name columns in the order the join rows first      *)
(* showed the names.                                                       *)
(***************************************************************************)
C10_ColumnsInDiscoveryOrder ==
    written > 0 => report.columns = FirstCols(feature_type) \o Discovered

(***************************************************************************)
(* C10 amended.  The columns of the report are the six leading columns     *)
(* followed by the discovered area names in ascending order of their text, *)
(* each column once.                                                       *)
(***************************************************************************)
C10_ColumnsFixedThenSortedAreas ==
    written > 0 =>
        LET cols == report.columns
            lead == Len(FirstCols(feature_type))
        IN  /\ Len(cols) = lead + Len(Discovered)
            /\ SubSeq(cols, 1, lead) = FirstCols(feature_type)
            /\ {cols[k] : k \in (lead + 1)..Len(cols)} = Range(Discovered)
            /\ \A j, k \in (lead + 1)..Len(cols) :
                  j < k => LexLess(cols[j], cols[k])
            /\ \A j, k \in 1..Len(cols) : cols[j] = cols[k] => j = k

C10_Witness ==
    /\ written > 0
    /\ areaOrder = <<AreaY, AreaX>>
    /\ report.columns = FirstCols(feature_type) \o <<AreaX, AreaY>>

=============================================================================
